---- MODULE Spec2Model ----
(***************************************************************************)
(* Model of psa_wordlist.py: the transform primitives (make_case_variants, *)
(* apply_leets, append_years, attach_specials), the lazy token combiner    *)
(* generate_combinations and the orchestrator build_wordlist.              *)
(*                                                                         *)
(* A Python str is a sequence of ASCII code points (65 = "A", 97 = "a"),   *)
(* so that lower(), upper(), sorted() and str(year) are computed as Python *)
(* computes them on ASCII text.  None is the empty sequence <<>> and a     *)
(* supplied optional integer n is <<n>>.                                   *)
(***************************************************************************)
EXTENDS Integers, Sequences, FiniteSets, TLC

VARIABLES
    pc,          \* position inside build_wordlist
    cfg,         \* the arguments of the build_wordlist call and the current year
    max_results, \* local max_results after line 237
    start_year,  \* local start_year (reassigned at lines 268, 274)
    end_year,    \* local end_year (reassigned at line 270)
    tokens,      \* list tokens (line 238)
    variants,    \* keys of the OrderedDict variants, in insertion order (line 256)
    ti,          \* index of the current token t of the loop at line 258
    cvs,         \* make_case_variants(t) being iterated (line 260)
    ci,          \* index of the current case variant v
    gen,         \* frame of the generate_combinations generator (lines 194-208)
    combo,       \* the combination being expanded (line 288)
    yrs,         \* <<first, last>> year handed to the latest append_years call
    combined_count, \* line 287
    results,     \* list returned at line 314
    lt,          \* apply_leets call: [token, cap, result]
    cb,          \* generate_combinations call consumed on its own
    earlier      \* what an earlier build_wordlist call with a smaller max_results returned

vars == <<pc, cfg, max_results, start_year, end_year, tokens, variants, ti, cvs,
          ci, gen, combo, yrs, combined_count, results, lt, cb, earlier>>

-----------------------------------------------------------------------------
(* Python values *)

None == <<>>

IsNone(x) == x = <<>>

Val(x) == x[1]

\* `x or d` for an optional integer: None and 0 are falsy
OrElse(x, d) == IF IsNone(x) \/ Val(x) = 0 THEN d ELSE Val(x)

Min(a, b) == IF a <= b THEN a ELSE b

Max(a, b) == IF a >= b THEN a ELSE b

\* items[:n] of a Python list, n of either sign
SliceTo(items, n) ==
    IF n >= 0 THEN SubSeq(items, 1, Min(n, Len(items)))
    ELSE SubSeq(items, 1, Max(0, Len(items) + n))

\* s[-2:] of a Python str
LastTwo(s) == IF Len(s) <= 2 THEN s ELSE SubSeq(s, Len(s) - 1, Len(s))

Range(s) == {s[i] : i \in 1..Len(s)}

IsUpperCh(c) == c >= 65 /\ c <= 90

IsLowerCh(c) == c >= 97 /\ c <= 122

LowerCh(c) == IF IsUpperCh(c) THEN c + 32 ELSE c

UpperCh(c) == IF IsLowerCh(c) THEN c - 32 ELSE c

lower(s) == [i \in 1..Len(s) |-> LowerCh(s[i])]

upper(s) == [i \in 1..Len(s) |-> UpperCh(s[i])]

capitalize(s) == [i \in 1..Len(s) |-> IF i = 1 THEN UpperCh(s[i]) ELSE LowerCh(s[i])]

\* Python's 0-based even index is the 1-based odd index
alt_case(s) == [i \in 1..Len(s) |-> IF i % 2 = 1 THEN UpperCh(s[i]) ELSE LowerCh(s[i])]

\* str < str: code-point lexicographic, a proper prefix first
RECURSIVE StrLess(_, _)
StrLess(a, b) ==
    IF b = <<>> THEN FALSE
    ELSE IF a = <<>> THEN TRUE
    ELSE IF Head(a) # Head(b) THEN Head(a) < Head(b)
    ELSE StrLess(Tail(a), Tail(b))

\* the list whose i-th item is the x of the pair <<i, x>>
ByRank(pairs, n) == [i \in 1..n |-> (CHOOSE p \in pairs : p[1] = i)[2]]

\* sorted(S) of a set of str: the i-th item has i-1 smaller items
sorted(S) ==
    ByRank({<<Cardinality({y \in S : StrLess(y, x)}) + 1, x>> : x \in S}, Cardinality(S))

\* str(y) of a non-negative int
RECURSIVE str(_)
str(y) == IF y < 10 THEN <<48 + y>> ELSE str(y \div 10) \o <<48 + (y % 10)>>

\* s.strip(), whitespace being the space character
RECURSIVE lstrip(_)
lstrip(s) == IF s # <<>> /\ Head(s) = 32 THEN lstrip(Tail(s)) ELSE s

RECURSIVE rstrip(_)
rstrip(s) == IF s # <<>> /\ s[Len(s)] = 32 THEN rstrip(SubSeq(s, 1, Len(s) - 1)) ELSE s

strip(s) == rstrip(lstrip(s))

\* ''.join(parts)
RECURSIVE join(_)
join(parts) == IF parts = <<>> THEN <<>> ELSE Head(parts) \o join(Tail(parts))

\* line 294 on a dictionary that moves a key assigned again to the end
PutMovingToEnd(d, k) == Append(SelectSeq(d, LAMBDA x : x # k), k)

\* variants[k] = None on an OrderedDict: a new key goes last, an old key keeps its place
Put(d, k) == IF k \in Range(d) THEN d ELSE Append(d, k)

\* for k in ks: d[k] = None
PutAll(d, ks) ==
    LET old == Range(d)
        idx == SelectSeq([i \in 1..Len(ks) |-> i],
                         LAMBDA i : ks[i] \notin old /\ \A j \in 1..(i - 1) : ks[j] # ks[i])
    IN  d \o [k \in 1..Len(idx) |-> ks[idx[k]]]

-----------------------------------------------------------------------------
(* Module data, lines 39-65 *)

COMMON_PASSWORDS ==
    << <<49, 50, 51, 52, 53, 54>>,                   \* 123456
       <<112, 97, 115, 115, 119, 111, 114, 100>>,    \* password
       <<49, 50, 51, 52, 53, 54, 55, 56>>,           \* 12345678
       <<113, 119, 101, 114, 116, 121>>,             \* qwerty
       <<97, 98, 99, 49, 50, 51>>,                   \* abc123
       <<109, 111, 110, 107, 101, 121>>,             \* monkey
       <<108, 101, 116, 109, 101, 105, 110>>,        \* letmein
       <<100, 114, 97, 103, 111, 110>>,              \* dragon
       <<49, 49, 49, 49, 49, 49>>,                   \* 111111
       <<98, 97, 115, 101, 98, 97, 108, 108>>,       \* baseball
       <<105, 108, 111, 118, 101, 121, 111, 117>>,   \* iloveyou
       <<116, 114, 117, 115, 116, 110, 111, 49>>,    \* trustno1
       <<115, 117, 110, 115, 104, 105, 110, 101>>,   \* sunshine
       <<109, 97, 115, 116, 101, 114>>,              \* master
       <<119, 101, 108, 99, 111, 109, 101>>,         \* welcome
       <<115, 104, 97, 100, 111, 119>> >>            \* shadow

\* lower-case letter |-> its replacements, in list order
LEET_MAP ==
    (97 :> <<52, 64>>) @@ (98 :> <<56>>) @@ (101 :> <<51>>) @@ (105 :> <<49, 33>>) @@
    (108 :> <<49, 124>>) @@ (111 :> <<48>>) @@ (115 :> <<53, 36>>) @@ (116 :> <<55>>) @@
    (103 :> <<57>>) @@ (122 :> <<50>>)

\* ! @ # $ % & * ?
SPECIALS == <<33, 64, 35, 36, 37, 38, 42, 63>>

LIMIT_max_results == 50000

LIMIT_year_range_limit == 30

\* default of the parameter max_variants of apply_leets
LEETS_DEFAULT_CAP == 8

\* max_variants build_wordlist passes for a combination
LEETS_COMBO_CAP == 4

\* an apply_leets call substitutes at most this many positions
LEETS_MAX_SUBS == 3

\* max_suffix build_wordlist passes for a single token and for a combination
SPECIALS_TOKEN_SUFFIX == 2

SPECIALS_COMBO_SUFFIX == 1

\* years before the current year: default start of the single-token window,
\* and of the combination window
YEARS_BACK_TOKEN == 10

YEARS_BACK_COMBO == 5

\* alternating case is added for tokens up to this length
ALT_CASE_MAX_LEN == 8

-----------------------------------------------------------------------------
(* itertools *)

Prefixed(x, seqs) == [i \in 1..Len(seqs) |-> <<x>> \o seqs[i]]

\* itertools.combinations(range(lo, n+1), r): ascending index tuples, lexicographic
RECURSIVE CombinationsFrom(_, _, _)
CombinationsFrom(lo, n, r) ==
    IF r = 0 THEN << <<>> >>
    ELSE IF lo > n THEN <<>>
    ELSE Prefixed(lo, CombinationsFrom(lo + 1, n, r - 1)) \o CombinationsFrom(lo + 1, n, r)

combinations(n, r) == CombinationsFrom(1, n, r)

\* itertools.product(*lists): the rightmost list advances fastest
RECURSIVE product(_)
RECURSIVE ProductHead(_, _)
ProductHead(h, rest) ==
    IF h = <<>> THEN <<>> ELSE Prefixed(Head(h), rest) \o ProductHead(Tail(h), rest)

product(lists) ==
    IF lists = <<>> THEN << <<>> >> ELSE ProductHead(Head(lists), product(Tail(lists)))

\* itertools.permutations(range(1, n+1), r): tuples of distinct indices, lexicographic
RECURSIVE PermutationsFrom(_, _, _, _)
PermutationsFrom(i, used, n, r) ==
    IF r = 0 THEN << <<>> >>
    ELSE IF i > n THEN <<>>
    ELSE (IF i \in used THEN <<>>
          ELSE Prefixed(i, PermutationsFrom(1, used \cup {i}, n, r - 1)))
         \o PermutationsFrom(i + 1, used, n, r)

permutations(n, r) == PermutationsFrom(1, {}, n, r)

-----------------------------------------------------------------------------
(* Transform primitives, lines 132-188 *)

make_case_variants(token) ==
    sorted({token, lower(token), upper(token), capitalize(token)}
           \cup (IF Len(token) <= ALT_CASE_MAX_LEN THEN {alt_case(token)} ELSE {}))

\* indices of token whose lower-cased character has a LEET_MAP entry (lines 144-147)
LeetPositions(token) ==
    SelectSeq([i \in 1..Len(token) |-> i], LAMBDA i : LowerCh(token[i]) \in DOMAIN LEET_MAP)

\* lines 163-166: token with prod[k] written at idxs[k]
Substitute(token, idxs, prod) ==
    [i \in 1..Len(token) |->
        IF \E k \in 1..Len(idxs) : idxs[k] = i
        THEN prod[CHOOSE k \in 1..Len(idxs) : idxs[k] = i]
        ELSE token[i]]

\* lines 157-166 for one combo of positions: its variants in product order
LeetsOfCombo(token, idxs) ==
    LET prods == product([k \in 1..Len(idxs) |-> LEET_MAP[LowerCh(token[idxs[k]])]])
    IN  [p \in 1..Len(prods) |-> Substitute(token, idxs, prods[p])]

\* lines 154-166: every variant the three nested loops build, in loop order
RECURSIVE LeetsOfCombos(_, _, _)
LeetsOfCombos(token, positions, combos) ==
    IF combos = <<>> THEN <<>>
    ELSE LeetsOfCombo(token, [k \in 1..Len(Head(combos)) |-> positions[Head(combos)[k]]])
         \o LeetsOfCombos(token, positions, Tail(combos))

RECURSIVE LeetsFromCount(_, _, _, _)
LeetsFromCount(token, positions, r, max_subs) ==
    IF r > max_subs THEN <<>>
    ELSE LeetsOfCombos(token, positions, combinations(Len(positions), r))
         \o LeetsFromCount(token, positions, r + 1, max_subs)

LeetTraversal(token) ==
    LET positions == LeetPositions(token)
    IN  LeetsFromCount(token, positions, 1, Min(Len(positions), LEETS_MAX_SUBS))

\* line 167 with == for >=
CapReachedExactly(vs, max_variants) == Cardinality(vs) = max_variants

\* line 167
CapReached(vs, max_variants) == Cardinality(vs) >= max_variants

\* lines 166-168: add each built variant, return as soon as the cap test passes
RECURSIVE LeetAccumulate(_, _, _)
LeetAccumulate(vs, todo, max_variants) ==
    IF todo = <<>> THEN vs
    ELSE LET vs2 == vs \cup {Head(todo)}
         IN  IF CapReached(vs2, max_variants) THEN vs2
             ELSE LeetAccumulate(vs2, Tail(todo), max_variants)

apply_leets(token, max_variants) ==
    sorted(LeetAccumulate({token}, LeetTraversal(token), max_variants))

\* lines 174-176: per year the full form, then the two-digit form
append_years(token, sy, ey) ==
    [i \in 1..(2 * Max(0, ey - sy + 1)) |->
        LET y == sy + ((i - 1) \div 2)
        IN  IF i % 2 = 1 THEN token \o str(y) ELSE token \o LastTwo(str(y))]

\* the symbol strings of length n, lines 184-185
SymbolStrings(n) == product([k \in 1..n |-> SPECIALS])

attach_specials(token, max_suffix) ==
    sorted({token}
           \cup UNION {{token \o s, s \o token} :
                         s \in UNION {Range(SymbolStrings(n)) : n \in 1..max_suffix}})

-----------------------------------------------------------------------------
(* generate_combinations, lines 190-208: a generator, resumed once per item *)

\* line 196: order kept, empty strings dropped, first occurrence wins
tokens_unique(toks) == PutAll(<<>>, SelectSeq(toks, LAMBDA t : t # <<>>))

\* line 203 without the seen test
UnseenAlways(w, seen) == TRUE

\* line 203
Unseen(w, seen) == w \notin seen

\* line 201 with combinations for permutations
OrderedSelections(n, r) == combinations(n, r)

\* line 201: the index tuples itertools.permutations(tokens_unique, r) walks
Selections(n, r) == permutations(n, r)

GenFresh == [state |-> "fresh", r |-> 0, k |-> 0, seen |-> {}, count |-> 0, out |-> <<>>]

GenExhausted(f) == [f EXCEPT !.state = "exhausted", !.out = <<>>]

RECURSIVE GenOuter(_, _, _, _, _)
RECURSIVE GenInner(_, _, _, _, _, _)
\* top of the loop at line 197, for arity r
GenOuter(tu, max_comb, budget, f, r) ==
    IF r > max_comb THEN GenExhausted(f)
    ELSE IF f.count >= budget THEN GenExhausted(f)
    ELSE GenInner(tu, max_comb, budget, f, r, 1)

\* the loop at line 201, at the k-th permutation of arity r
GenInner(tu, max_comb, budget, f, r, k) ==
    LET perms == Selections(Len(tu), r)
    IN  IF k > Len(perms) THEN GenOuter(tu, max_comb, budget, f, r + 1)
        ELSE LET w == join([j \in 1..r |-> tu[perms[k][j]]])
             IN  IF Unseen(w, f.seen)
                 THEN [state |-> "suspended", r |-> r, k |-> k,
                       seen |-> f.seen \cup {w}, count |-> f.count + 1, out |-> w]
                 ELSE IF f.count >= budget
                      THEN GenOuter(tu, max_comb, budget, f, r + 1)
                      ELSE GenInner(tu, max_comb, budget, f, r, k + 1)

\* next(generator): run from the suspended yield (line 206) to the next yield or the end
GenResume(toks, max_comb, budget, f) ==
    LET tu == tokens_unique(toks)
    IN  IF f.state = "fresh" THEN GenOuter(tu, max_comb, budget, f, 1)
        ELSE IF f.state = "suspended"
             THEN IF f.count >= budget
                  THEN GenOuter(tu, max_comb, budget, f, f.r + 1)
                  ELSE GenInner(tu, max_comb, budget, f, f.r, f.k + 1)
             ELSE f

-----------------------------------------------------------------------------
(* build_wordlist, lines 219-314 *)

\* extend_unique, lines 241-245
RECURSIVE extend_unique(_, _)
extend_unique(toks, lst) ==
    IF lst = <<>> THEN toks
    ELSE LET s == strip(Head(lst))
         IN  extend_unique(IF s # <<>> /\ s \notin Range(toks) THEN Append(toks, s) ELSE toks,
                           Tail(lst))

\* lines 247-253
CollectTokens(c) ==
    LET seeded == extend_unique(extend_unique(extend_unique(extend_unique(<<>>,
                      c.names), c.dates), c.pets), c.custom)
    IN  IF c.include_common THEN extend_unique(seeded, COMMON_PASSWORDS) ELSE seeded

\* lines 311-313 without the cap
Uncapped(keys, limit) == keys

\* lines 311-313 keeping the tail instead of the head
CapTail(keys, limit) ==
    IF Len(keys) > limit THEN SubSeq(keys, Len(keys) - limit + 1, Len(keys)) ELSE keys

\* lines 311-313
CapResults(keys, limit) == IF Len(keys) > limit THEN SliceTo(keys, limit) ELSE keys

\* line 290 with > for >=
BudgetExceeded(keys, limit) == Len(keys) > limit

\* line 290
BudgetReached(keys, limit) == Len(keys) >= limit

\* lines 267-274: the start and end year the single-token expansion resolves to
ResolvedEnd(c_end, now) == IF IsNone(c_end) THEN now + 1 ELSE Val(c_end)

ResolvedStart(c_start, c_end, now) ==
    LET s == IF IsNone(c_start) THEN now - YEARS_BACK_TOKEN ELSE Val(c_start)
        e == ResolvedEnd(c_end, now)
    IN  IF (e - s) > LIMIT_year_range_limit THEN e - LIMIT_year_range_limit ELSE s

\* lines 237-256
Begin ==
    /\ pc = "start"
    /\ max_results' = OrElse(cfg.max_results, LIMIT_max_results)
    /\ tokens' = CollectTokens(cfg)
    /\ variants' = <<>>
    /\ pc' = "token_loop"
    /\ UNCHANGED <<cfg, start_year, end_year, ti, cvs, ci, gen, combo, yrs,
                   combined_count, results, lt, cb, earlier>>

\* line 258: next token t, line 260 evaluates make_case_variants(t)
TokenNext ==
    /\ pc = "token_loop"
    /\ IF ti < Len(tokens)
       THEN /\ ti' = ti + 1
            /\ cvs' = make_case_variants(tokens[ti + 1])
            /\ ci' = 0
            /\ pc' = "case_loop"
       ELSE /\ pc' = "raw_tokens"
            /\ UNCHANGED <<ti, cvs, ci>>
    /\ UNCHANGED <<cfg, max_results, start_year, end_year, tokens, variants, gen, combo,
                   yrs, combined_count, results, lt, cb, earlier>>

\* lines 260-261: next case variant v, inserted
CaseNext ==
    /\ pc = "case_loop"
    /\ IF ci < Len(cvs)
       THEN /\ ci' = ci + 1
            /\ variants' = Put(variants, cvs[ci + 1])
            /\ pc' = "leets"
       ELSE /\ pc' = "token_loop"
            /\ UNCHANGED <<ci, variants>>
    /\ UNCHANGED <<cfg, max_results, start_year, end_year, tokens, ti, cvs, gen, combo,
                   yrs, combined_count, results, lt, cb, earlier>>

\* lines 262-264
TokenLeets ==
    /\ pc = "leets"
    /\ variants' = IF cfg.leets
                   THEN PutAll(variants, apply_leets(cvs[ci], LEETS_DEFAULT_CAP))
                   ELSE variants
    /\ pc' = "years"
    /\ UNCHANGED <<cfg, max_results, start_year, end_year, tokens, ti, cvs, ci, gen, combo,
                   yrs, combined_count, results, lt, cb, earlier>>

\* lines 266-276
TokenYears ==
    /\ pc = "years"
    /\ IF cfg.append_years_opt
       THEN LET s == ResolvedStart(start_year, end_year, cfg.now)
                e == ResolvedEnd(end_year, cfg.now)
            IN  /\ start_year' = <<s>>
                /\ end_year' = <<e>>
                /\ yrs' = <<s, e>>
                /\ variants' = PutAll(variants, append_years(cvs[ci], s, e))
       ELSE UNCHANGED <<start_year, end_year, yrs, variants>>
    /\ pc' = "specials"
    /\ UNCHANGED <<cfg, max_results, tokens, ti, cvs, ci, gen, combo, combined_count,
                   results, lt, cb, earlier>>

\* lines 278-280
TokenSpecials ==
    /\ pc = "specials"
    /\ variants' = IF cfg.attach_specials_opt
                   THEN PutAll(variants, attach_specials(cvs[ci], SPECIALS_TOKEN_SUFFIX))
                   ELSE variants
    /\ pc' = "case_loop"
    /\ UNCHANGED <<cfg, max_results, start_year, end_year, tokens, ti, cvs, ci, gen, combo,
                   yrs, combined_count, results, lt, cb, earlier>>

\* lines 283-288: raw tokens inserted, combined_count = 0, the generator created
RawTokens ==
    /\ pc = "raw_tokens"
    /\ variants' = PutAll(variants, tokens)
    /\ combined_count' = 0
    /\ gen' = GenFresh
    /\ pc' = "combine"
    /\ UNCHANGED <<cfg, max_results, start_year, end_year, tokens, ti, cvs, ci, combo,
                   yrs, results, lt, cb, earlier>>

\* lines 288-294: the generator is resumed; the budget test; the plain combo inserted
ComboNext ==
    /\ pc = "combine"
    /\ LET f == GenResume(tokens, cfg.max_combination, max_results, gen)
       IN  /\ gen' = f
           /\ IF f.state = "exhausted"
              THEN /\ pc' = "cap"
                   /\ UNCHANGED <<combo, variants>>
              ELSE /\ combo' = f.out
                   /\ IF BudgetReached(variants, max_results)
                      THEN /\ pc' = "cap"
                           /\ UNCHANGED variants
                      ELSE /\ variants' = Put(variants, f.out)
                           /\ pc' = "combo_leets"
    /\ UNCHANGED <<cfg, max_results, start_year, end_year, tokens, ti, cvs, ci, yrs,
                   combined_count, results, lt, cb, earlier>>

\* lines 296-298
ComboLeets ==
    /\ pc = "combo_leets"
    /\ variants' = IF cfg.leets
                   THEN PutAll(variants, apply_leets(combo, LEETS_COMBO_CAP))
                   ELSE variants
    /\ pc' = "combo_years"
    /\ UNCHANGED <<cfg, max_results, start_year, end_year, tokens, ti, cvs, ci, gen, combo,
                   yrs, combined_count, results, lt, cb, earlier>>

\* lines 299-304
ComboYears ==
    /\ pc = "combo_years"
    /\ IF cfg.append_years_opt
       THEN LET sy == OrElse(start_year, cfg.now - YEARS_BACK_COMBO)
                ey == OrElse(end_year, cfg.now)
            IN  /\ yrs' = <<sy, ey>>
                /\ variants' = PutAll(variants, append_years(combo, sy, ey))
       ELSE UNCHANGED <<yrs, variants>>
    /\ pc' = "combo_specials"
    /\ UNCHANGED <<cfg, max_results, start_year, end_year, tokens, ti, cvs, ci, gen, combo,
                   combined_count, results, lt, cb, earlier>>

\* lines 305-308
ComboSpecials ==
    /\ pc = "combo_specials"
    /\ variants' = IF cfg.attach_specials_opt
                   THEN PutAll(variants, attach_specials(combo, SPECIALS_COMBO_SUFFIX))
                   ELSE variants
    /\ combined_count' = combined_count + 1
    /\ pc' = "combine"
    /\ UNCHANGED <<cfg, max_results, start_year, end_year, tokens, ti, cvs, ci, gen, combo,
                   yrs, results, lt, cb, earlier>>

\* lines 311-314
Return ==
    /\ pc = "cap"
    /\ results' = CapResults(variants, max_results)
    /\ pc' = "done"
    /\ UNCHANGED <<cfg, max_results, start_year, end_year, tokens, variants, ti, cvs, ci,
                   gen, combo, yrs, combined_count, lt, cb, earlier>>

-----------------------------------------------------------------------------
(* Inputs *)

\* largest max_combination of an ordinary call
MaxArity == 2

\* apply_leets is called with caps 0..MaxLeetCap on tokens of 1..MaxLeetLen characters
MaxLeetCap == 10

MaxLeetLen == 3

\* generate_combinations is called with budgets -1..MaxBudget
MaxBudget == 5

tok_Al == <<65, 108>>

tok_Ex == <<69, 120>>

tok_b == <<98>>

tok_bb == <<98, 98>>

tok_x == <<120>>

tok_1 == <<49>>

\* " Al ", stripped to "Al" by extend_unique
tok_Al_padded == <<32, 65, 108, 32>>

tok_blank == <<32>>

Seeds(n, d, p, c) == [names |-> n, dates |-> d, pets |-> p, custom |-> c]

SeedsAlEx == Seeds(<<tok_Al>>, <<tok_Ex>>, <<>>, <<>>)

SeedsBX == Seeds(<<tok_b>>, <<tok_x>>, <<>>, <<>>)

SeedChoices ==
    { SeedsAlEx,
      SeedsBX,
      Seeds(<<tok_Al_padded, tok_Al>>, <<>>, <<tok_blank>>, <<tok_Al, tok_b>>),
      Seeds(<<>>, <<>>, <<>>, <<>>),
      Seeds(<<tok_b>>, <<tok_1>>, <<tok_x>>, <<>>) }

\* <<start_year, end_year>> as supplied
YearsDefault == <<None, None>>

YearsWide == << <<1990>>, <<2025>> >>

YearsReversed == << <<2025>>, <<2024>> >>

YearsNarrow == << <<2020>>, <<2021>> >>

YearChoices(years_on) ==
    IF years_on THEN {YearsDefault, YearsWide, YearsReversed, YearsNarrow}
    ELSE {YearsDefault, YearsReversed}

Now == {2026}

Call(sd, common, l, y, sp, yr, mr, mc, now) ==
    [names |-> sd.names, dates |-> sd.dates, pets |-> sd.pets, custom |-> sd.custom,
     include_common |-> common, leets |-> l, append_years_opt |-> y,
     attach_specials_opt |-> sp, start_year |-> yr[1], end_year |-> yr[2],
     max_results |-> mr, max_combination |-> mc, now |-> now]

\* ordinary calls: every seed choice, every flag combination, a budget omitted or positive
OrdinaryCalls ==
    {Call(sd, FALSE, l, y, sp, yr, mr, mc, now) :
        sd \in SeedChoices, l \in BOOLEAN, y \in BOOLEAN, sp \in BOOLEAN,
        yr \in YearChoices(TRUE), mr \in {None, <<3>>, <<7>>, <<100>>},
        mc \in 1..MaxArity, now \in Now}

\* calls with a budget of zero, below zero or of one, and with a non-positive arity
EdgeCalls ==
    {Call(sd, FALSE, l, FALSE, FALSE, yr, mr, mc, now) :
        sd \in {SeedsAlEx, SeedsBX}, l \in BOOLEAN, yr \in YearChoices(FALSE),
        mr \in {<<0>>, <<-1>>, <<1>>}, mc \in {-1, 0, MaxArity}, now \in Now}

\* calls that add the built-in list
CommonCalls ==
    {Call(sd, TRUE, FALSE, FALSE, FALSE, YearsDefault, mr, 1, now) :
        sd \in {SeedsAlEx, Seeds(<<>>, <<>>, <<>>, <<>>)}, mr \in {None, <<3>>}, now \in Now}

Calls ==
    {c \in OrdinaryCalls : c.append_years_opt \/ <<c.start_year, c.end_year>> \in YearChoices(FALSE)}
    \cup EdgeCalls \cup CommonCalls

LeetAlphabet == {97, 66, 115, 120}

LeetTokens == UNION {[1..n -> LeetAlphabet] : n \in 1..MaxLeetLen}

CombTokenLists ==
    { <<tok_Al, tok_Ex>>,
      <<tok_b, tok_bb>>,
      <<tok_b, <<>>, tok_b, tok_x, tok_1>>,
      <<>> }

-----------------------------------------------------------------------------
(* Specifications *)

NoEarlierCall == [called |-> FALSE]

BuildIdle ==
    /\ pc = "off" /\ cfg = <<>> /\ max_results = None /\ start_year = None
    /\ end_year = None /\ tokens = <<>> /\ variants = <<>> /\ ti = 0 /\ cvs = <<>>
    /\ ci = 0 /\ gen = GenFresh /\ combo = <<>> /\ yrs = <<>> /\ combined_count = 0
    /\ results = <<>> /\ earlier = NoEarlierCall

LeetIdle == lt = [state |-> "off"]

CombIdle == cb = [state |-> "off"]

\* a call of build_wordlist about to run line 237
Init ==
    /\ cfg \in Calls
    /\ pc = "start"
    /\ max_results = cfg.max_results
    /\ start_year = cfg.start_year
    /\ end_year = cfg.end_year
    /\ tokens = <<>> /\ variants = <<>> /\ ti = 0 /\ cvs = <<>> /\ ci = 0
    /\ gen = GenFresh /\ combo = <<>> /\ yrs = <<>> /\ combined_count = 0
    /\ results = <<>>
    /\ earlier = NoEarlierCall
    /\ LeetIdle /\ CombIdle

Next ==
    \/ Begin
    \/ TokenNext
    \/ CaseNext
    \/ TokenLeets
    \/ TokenYears
    \/ TokenSpecials
    \/ RawTokens
    \/ ComboNext
    \/ ComboLeets
    \/ ComboYears
    \/ ComboSpecials
    \/ Return

Spec == Init /\ [][Next]_vars

\* apply_leets(token, cap) called on its own
InitLeets ==
    /\ BuildIdle /\ CombIdle
    /\ lt \in {[state |-> "call", token |-> t, cap |-> c, result |-> <<>>] :
                 t \in LeetTokens, c \in 0..MaxLeetCap}

LeetCall ==
    /\ lt.state = "call"
    /\ lt' = [lt EXCEPT !.state = "returned", !.result = apply_leets(lt.token, lt.cap)]
    /\ UNCHANGED <<pc, cfg, max_results, start_year, end_year, tokens, variants, ti, cvs,
                   ci, gen, combo, yrs, combined_count, results, cb, earlier>>

NextLeets == LeetCall

SpecLeets == InitLeets /\ [][NextLeets]_vars

\* generate_combinations(tokens, max_comb, max_results) consumed item by item
InitComb ==
    /\ BuildIdle /\ LeetIdle
    /\ cb \in {[state |-> "run", tokens |-> ts, max_comb |-> k, max_results |-> b,
                frame |-> GenFresh, yielded |-> <<>>] :
                 ts \in CombTokenLists, k \in 0..(MaxArity + 1), b \in -1..MaxBudget}

CombNext ==
    /\ cb.state = "run"
    /\ LET f == GenResume(cb.tokens, cb.max_comb, cb.max_results, cb.frame)
       IN  cb' = IF f.state = "exhausted"
                 THEN [cb EXCEPT !.state = "stopped", !.frame = f]
                 ELSE [cb EXCEPT !.frame = f, !.yielded = Append(cb.yielded, f.out)]
    /\ UNCHANGED <<pc, cfg, max_results, start_year, end_year, tokens, variants, ti, cvs,
                   ci, gen, combo, yrs, combined_count, results, lt, earlier>>

NextComb == CombNext

SpecComb == InitComb /\ [][NextComb]_vars

\* build_wordlist called twice with the same arguments and current year, the
\* second time with a max_results at least as large
RerunBudgets == {3, 7, 9, 40, 400}

RerunCalls ==
    {Call(sd, FALSE, l, y, sp, yr, <<m>>, mc, now) :
        sd \in {SeedsAlEx, SeedsBX, Seeds(<<tok_b>>, <<tok_1>>, <<tok_x>>, <<>>)},
        l \in BOOLEAN, y \in BOOLEAN, sp \in BOOLEAN, yr \in {YearsDefault, YearsNarrow},
        m \in RerunBudgets, mc \in 1..MaxArity, now \in Now}

InitRerun ==
    /\ cfg \in {c \in RerunCalls : c.append_years_opt \/ c.start_year = None}
    /\ pc = "start"
    /\ max_results = cfg.max_results
    /\ start_year = cfg.start_year
    /\ end_year = cfg.end_year
    /\ tokens = <<>> /\ variants = <<>> /\ ti = 0 /\ cvs = <<>> /\ ci = 0
    /\ gen = GenFresh /\ combo = <<>> /\ yrs = <<>> /\ combined_count = 0
    /\ results = <<>>
    /\ earlier = NoEarlierCall
    /\ LeetIdle /\ CombIdle

\* the first call has returned (line 314); the caller keeps its list and calls
\* build_wordlist again, changing max_results only: every local starts afresh
CallAgain ==
    /\ pc = "done"
    /\ ~earlier.called
    /\ \E m \in RerunBudgets :
          /\ m >= Val(cfg.max_results)
          /\ cfg' = [cfg EXCEPT !.max_results = <<m>>]
          /\ max_results' = <<m>>
    /\ earlier' = [called |-> TRUE, max_results |-> Val(cfg.max_results),
                   results |-> results]
    /\ start_year' = cfg.start_year
    /\ end_year' = cfg.end_year
    /\ tokens' = <<>> /\ variants' = <<>> /\ ti' = 0 /\ cvs' = <<>> /\ ci' = 0
    /\ gen' = GenFresh /\ combo' = <<>> /\ yrs' = <<>> /\ combined_count' = 0
    /\ results' = <<>>
    /\ pc' = "start"
    /\ UNCHANGED <<lt, cb>>

NextRerun == Next \/ CallAgain

SpecRerun == InitRerun /\ [][NextRerun]_vars

-----------------------------------------------------------------------------
(* Properties *)

NoDuplicates(seq) == \A i, j \in 1..Len(seq) : i # j => seq[i] # seq[j]

\* the call supplied a positive max_results
PositiveBudget == ~IsNone(cfg.max_results) /\ Val(cfg.max_results) > 0

\* build_wordlist is past line 237, so max_results holds the resolved integer
Running == pc \notin {"off", "start"}

AnyTransform == cfg.leets \/ cfg.append_years_opt \/ cfg.attach_specials_opt

\* C1: for a positive max_results the returned list has at most max_results
\* entries and no string twice, whatever the seeds and flags.
C1_OutputCappedAndDistinct ==
    (pc = "done" /\ PositiveBudget) =>
        /\ Len(results) <= Val(cfg.max_results)
        /\ NoDuplicates(results)

\* the dictionary overshot the budget and the returned list was cut to it
C1_Witness ==
    /\ pc = "done" /\ PositiveBudget
    /\ Len(variants) > Val(cfg.max_results)
    /\ Len(results) = Val(cfg.max_results)

\* C2 as claimed: the variants dictionary never holds more than max_results
\* strings, in any intermediate state of either phase (so nothing is inserted
\* once it is full).
C2_ResultSetNeverExceedsBudget ==
    (Running /\ PositiveBudget) => Len(variants) <= max_results

\* C2 amended: the budget is tested once per combination, before the plain
\* combination is inserted: right after that insertion the dictionary holds at
\* most max_results strings, and the list finally returned holds at most
\* max_results strings; in between the dictionary may overshoot.
C2_BudgetTestedPerCombination ==
    PositiveBudget =>
        /\ pc = "combo_leets" => Len(variants) <= max_results
        /\ pc = "done" => Len(results) <= max_results

\* the combination loop was left by the budget test, with the dictionary
\* over budget and an item of the generator not expanded
C2_Witness ==
    /\ pc = "cap" /\ PositiveBudget
    /\ gen.state = "suspended"
    /\ combined_count > 0
    /\ Len(variants) > max_results

\* the case variants of the first seed token
FirstTokenCases == Range(make_case_variants(tokens[1]))

IsSymbolString(s) == Len(s) \in 1..SPECIALS_TOKEN_SUFFIX /\ Range(s) \subseteq Range(SPECIALS)

\* w is v itself or one of v's leet, year or special variants of the single-token phase
DerivedFrom(w, v) ==
    \/ w = v
    \/ cfg.leets /\ w \in Range(apply_leets(v, LEETS_DEFAULT_CAP))
    \/ /\ cfg.append_years_opt
       /\ yrs # <<>>
       /\ \E y \in yrs[1]..yrs[2] : w \in {v \o str(y), v \o LastTwo(str(y))}
    \/ /\ cfg.attach_specials_opt
       /\ Len(w) > Len(v)
       /\ \/ SubSeq(w, 1, Len(v)) = v /\ IsSymbolString(SubSeq(w, Len(v) + 1, Len(w)))
          \/ /\ SubSeq(w, Len(w) - Len(v) + 1, Len(w)) = v
             /\ IsSymbolString(SubSeq(w, 1, Len(w) - Len(v)))

\* the call of the max_results=3 scenario, returned after more than 3 strings were made
C3_Scenario ==
    /\ pc = "done"
    /\ cfg.max_results = <<3>>
    /\ AnyTransform
    /\ Len(variants) > 3

\* C3 as claimed: exactly 3 entries, the first 3 in generation order, and no
\* string that is not a case variant of the first seed token before one that is.
C3_CaseVariantsPrecedeAll ==
    C3_Scenario =>
        /\ Len(results) = 3
        /\ results = SubSeq(variants, 1, 3)
        /\ \A i, j \in 1..Len(results) :
              (i < j /\ results[j] \in FirstTokenCases) => results[i] \in FirstTokenCases

\* C3 amended: exactly 3 entries, the first 3 in generation order; the first
\* entry is a case variant of the first seed token, and whatever precedes a case
\* variant of the first seed token is a case variant of it or a leet, year or
\* special variant of one (each case variant is followed by its own variants).
C3_FirstTokenExpansionPrecedes ==
    C3_Scenario =>
        /\ Len(results) = 3
        /\ results = SubSeq(variants, 1, 3)
        /\ results[1] \in FirstTokenCases
        /\ \A i, j \in 1..Len(results) :
              (i < j /\ results[j] \in FirstTokenCases) =>
                  \E v \in FirstTokenCases : DerivedFrom(results[i], v)

\* a leet variant sits between two case variants of the first seed token
C3_Witness ==
    /\ C3_Scenario
    /\ Len(results) = 3
    /\ results[2] \notin FirstTokenCases
    /\ results[3] \in FirstTokenCases

\* the call of the Al/Ex scenario has returned
C4_Scenario ==
    /\ pc = "done"
    /\ cfg.names = <<tok_Al>> /\ cfg.dates = <<tok_Ex>>
    /\ cfg.pets = <<>> /\ cfg.custom = <<>>
    /\ ~cfg.include_common /\ ~AnyTransform
    /\ cfg.max_combination = 2
    /\ cfg.max_results = <<100>>

\* C4 as claimed: the output is exactly {"Al", "Ex", "AlEx", "ExAl"}.
C4_OnlyTokensAndBothOrders ==
    C4_Scenario => Range(results) = {tok_Al, tok_Ex, tok_Al \o tok_Ex, tok_Ex \o tok_Al}

\* C4 amended: the output is AL, Al, al, EX, Ex, ex, AlEx, ExAl: the raw
\* tokens with their case variants, which no flag disables, then both
\* concatenation orders, and nothing else.
C4_TokensCasesAndBothOrders ==
    C4_Scenario =>
        results = << upper(tok_Al), tok_Al, lower(tok_Al), upper(tok_Ex), tok_Ex,
                     lower(tok_Ex), tok_Al \o tok_Ex, tok_Ex \o tok_Al >>

C4_Witness == C4_Scenario /\ Len(results) = 8 /\ results[8] = tok_Ex \o tok_Al

\* a call the configuration rules reject
InvalidCall ==
    \/ ~IsNone(cfg.max_results) /\ Val(cfg.max_results) <= 0
    \/ cfg.max_combination <= 0
    \/ /\ ~IsNone(cfg.start_year) /\ ~IsNone(cfg.end_year)
       /\ Val(cfg.end_year) < Val(cfg.start_year)

\* C5: a call with a non-positive max_results, a non-positive max_combination
\* or an explicit end_year below start_year does no generation work and never
\* returns a word list.
C5_InvalidCallRejected ==
    (pc # "off" /\ InvalidCall) => (pc = "start" /\ variants = <<>>)

\* C6: apply_leets(token, C) with C >= 1 returns at most C strings, the
\* original token among them.
C6_LeetsWithinCap ==
    (lt.state = "returned" /\ lt.cap >= 1) =>
        /\ Len(lt.result) <= lt.cap
        /\ lt.token \in Range(lt.result)

\* C7: every string apply_leets returns under a cap is returned under every
\* larger cap.
C7_LeetsMonotoneInCap ==
    lt.state = "returned" =>
        \A c2 \in lt.cap..MaxLeetCap :
            Range(lt.result) \subseteq Range(apply_leets(lt.token, c2))

\* the cap cut the traversal short, and a larger cap returns strictly more
C7_Witness ==
    /\ lt.state = "returned"
    /\ lt.cap >= 2
    /\ Len(lt.result) = lt.cap
    /\ Len(apply_leets(lt.token, MaxLeetCap)) > lt.cap

\* w is the concatenation of r distinct tokens of toks, 1 <= r <= k
IsConcatenation(w, toks, k) ==
    \E r \in 1..k :
        \E f \in [1..r -> {t \in Range(toks) : t # <<>>}] :
            /\ \A i, j \in 1..r : i # j => f[i] # f[j]
            /\ join(f) = w

\* C8: one generate_combinations run yields no string twice, only
\* concatenations of 1..K distinct seed tokens, and never more than B strings.
C8_CombinerDistinctBoundedLazy ==
    cb.state # "off" =>
        /\ NoDuplicates(cb.yielded)
        /\ \A i \in 1..Len(cb.yielded) : IsConcatenation(cb.yielded[i], cb.tokens, cb.max_comb)
        /\ Len(cb.yielded) <= Max(cb.max_results, 0)

\* the generator has stopped with the budget used up in the middle of an arity
C8_Witness ==
    /\ cb.state = "stopped"
    /\ cb.max_results >= 1
    /\ Len(cb.yielded) = cb.max_results
    /\ cb.frame.r <= cb.max_comb
    /\ cb.frame.k < Len(permutations(Len(tokens_unique(cb.tokens)), cb.frame.r))

\* C9: the range handed to append_years for a single token covers at most
\* year_range_limit years, and its end is the supplied or defaulted end year.
C9_YearSpanWithinLimit ==
    (pc = "specials" /\ cfg.append_years_opt) =>
        /\ yrs[2] - yrs[1] + 1 <= LIMIT_year_range_limit
        /\ yrs[2] = ResolvedEnd(cfg.end_year, cfg.now)

\* C10: with years enabled and no start_year or end_year supplied, single
\* tokens get the years now-10 .. now+1 and combinations the narrower
\* now-5 .. now.
C10_NarrowComboWindow ==
    (cfg.append_years_opt /\ IsNone(cfg.start_year) /\ IsNone(cfg.end_year)) =>
        /\ pc = "specials" => yrs = <<cfg.now - YEARS_BACK_TOKEN, cfg.now + 1>>
        /\ pc = "combo_specials" => yrs = <<cfg.now - YEARS_BACK_COMBO, cfg.now>>

\* C11: with the same seeds, flags, year range and current year, the list
\* returned for max_results = M1 is a prefix of the list returned for any
\* max_results = M2 >= M1.
C11_SmallerBudgetReturnsPrefix ==
    (pc = "done" /\ earlier.called) =>
        /\ Len(earlier.results) <= Len(results)
        /\ earlier.results = SubSeq(results, 1, Len(earlier.results))

\* the first call returned a full list of M1 strings, and the second call, with
\* a larger budget, had its combiner yield more than M1 combinations, expanded
\* several of them and returned a longer list
C11_Witness ==
    /\ pc = "done" /\ earlier.called
    /\ earlier.max_results < Val(cfg.max_results)
    /\ Len(earlier.results) = earlier.max_results
    /\ Len(results) > Len(earlier.results)
    /\ combined_count > 1
    /\ gen.count > earlier.max_results

====
